---- MODULE Spec2Model ----
(***************************************************************************)
(* rtstreamer: relay of timestamped media packets from a recorded file to  *)
(* a kymux endpoint (src/src/main.rs).  The model follows main() statement *)
(* by statement: argument check, File::open, parse_kymux_url, connect,     *)
(* handshake (endpoint id, sync byte, codec announcement) and the relay    *)
(* loop (header read, decode, pacing, header re-encoding, prefix and       *)
(* header writes, payload copy).                                           *)
(*                                                                         *)
(* Bytes are naturals 0..255.  A u64 is its 8 big-endian bytes (TLC's      *)
(* integers are 32 bits wide, a PTS is 62 bits wide), and arithmetic on    *)
(* u64 values is done digit by digit in base 256.                          *)
(***************************************************************************)
EXTENDS Integers, Sequences, FiniteSets, TLC

(***************************************************************************)
(* Bounds of the model.                                                    *)
(***************************************************************************)
\* longest source file, in bytes; every prefix of a packet stream up to this
\* length is a source file of the model
MaxFileLen == 26
\* capacity of BufReader's internal buffer and of io::copy's stack buffer
\* (DEFAULT_BUF_SIZE, 8192 in std), scaled down to the size of the files
BufCap == 13

(***************************************************************************)
(* Program constants.                                                      *)
(***************************************************************************)
HeaderLen == 12
PrefixLen == 4

(***************************************************************************)
(* Bit operations on naturals, as the code's &, | and >>.                  *)
(***************************************************************************)
RECURSIVE BitAnd(_, _)
BitAnd(a, b) ==
    IF a = 0 \/ b = 0 THEN 0
    ELSE (a % 2) * (b % 2) + 2 * BitAnd(a \div 2, b \div 2)

RECURSIVE BitOr(_, _)
BitOr(a, b) ==
    IF a = 0 THEN b
    ELSE IF b = 0 THEN a
    ELSE (IF a % 2 = 1 \/ b % 2 = 1 THEN 1 ELSE 0) + 2 * BitOr(a \div 2, b \div 2)

Shr(a, k) == a \div (2 ^ k)

(***************************************************************************)
(* u64 values as 8 big-endian base-256 digits.                             *)
(***************************************************************************)
U64Zero == <<0, 0, 0, 0, 0, 0, 0, 0>>

U64And(x, m) == [i \in 1..8 |-> BitAnd(x[i], m[i])]

U64Less(a, b) ==
    \E i \in 1..8 : a[i] < b[i] /\ \A j \in 1..(i - 1) : a[j] = b[j]

\* borrow taken from digit i by the digits below it in a - b
RECURSIVE Borrow(_, _, _)
Borrow(a, b, i) ==
    IF i = 8 THEN 0
    ELSE IF a[i + 1] - Borrow(a, b, i + 1) < b[i + 1] THEN 1 ELSE 0

\* a - b for a >= b
U64Sub(a, b) == [i \in 1..8 |-> (a[i] - b[i] - Borrow(a, b, i) + 256) % 256]

\* carry into digit i from the digits below it in a + b
RECURSIVE Carry(_, _, _)
Carry(a, b, i) ==
    IF i = 8 THEN 0
    ELSE IF a[i + 1] + b[i + 1] + Carry(a, b, i + 1) >= 256 THEN 1 ELSE 0

\* a + b, for sums below 2^64
U64Add(a, b) == [i \in 1..8 |-> (a[i] + b[i] + Carry(a, b, i)) % 256]

\* the u64 of a small natural
U64Of(n) == <<0, 0, 0, 0, 0, 0, (n \div 256) % 256, n % 256>>

(***************************************************************************)
(* byteorder::BigEndian                                                    *)
(***************************************************************************)
read_u64(bytes) == [i \in 1..8 |-> bytes[i]]

\* a u32 as a natural (the sizes of the model are far below 2^31)
read_u32(bytes) ==
    ((bytes[1] * 256 + bytes[2]) * 256 + bytes[3]) * 256 + bytes[4]

(***************************************************************************)
(* std::time::Duration and Instant: whole microseconds (a u64) and the     *)
(* nanoseconds within the microsecond.  An Instant is the Duration since   *)
(* an arbitrary epoch.                                                     *)
(***************************************************************************)
Dur(us, ns) == [micros |-> us, nanos |-> ns]

from_micros(p) == Dur(p, 0)

DurZero == Dur(U64Zero, 0)

DurLess(a, b) ==
    \/ U64Less(a.micros, b.micros)
    \/ a.micros = b.micros /\ a.nanos < b.nanos

DurLeq(a, b) == a = b \/ DurLess(a, b)

\* a - b for a >= b (Instant::duration_since, Duration - Duration)
DurSub(a, b) ==
    IF a.nanos >= b.nanos
    THEN Dur(U64Sub(a.micros, b.micros), a.nanos - b.nanos)
    ELSE Dur(U64Sub(U64Sub(a.micros, b.micros), U64Of(1)), a.nanos + 1000 - b.nanos)

DurAdd(a, b) ==
    IF a.nanos + b.nanos < 1000
    THEN Dur(U64Add(a.micros, b.micros), a.nanos + b.nanos)
    ELSE Dur(U64Add(U64Add(a.micros, b.micros), U64Of(1)), a.nanos + b.nanos - 1000)

(***************************************************************************)
(* The 12-byte meta header: decode (main.rs 112-115) and the re-encoding   *)
(* of byte 0 for the destination (main.rs 132).                            *)
(***************************************************************************)
\* 0x3F_FF_FF_FF_FF_FF_FF_FF
PtsMask == <<63, 255, 255, 255, 255, 255, 255, 255>>
\* 0x80_00_00_00_00_00_00_00
ConfigMask == <<128, 0, 0, 0, 0, 0, 0, 0>>

pts_and_flags_of(hdr) == read_u64(SubSeq(hdr, 1, 8))

\* the config flag looked for at bit 59 (0x08_00_00_00_00_00_00_00)
is_config_wrong_bit(hdr) ==
    U64And(pts_and_flags_of(hdr), <<8, 0, 0, 0, 0, 0, 0, 0>>) # U64Zero

\* the timestamp masked to 58 bits (0x03_FF_FF_FF_FF_FF_FF_FF)
pts_of_58_bits(hdr) ==
    U64And(pts_and_flags_of(hdr), <<3, 255, 255, 255, 255, 255, 255, 255>>)

pts_of(hdr) == U64And(pts_and_flags_of(hdr), PtsMask)
is_config_of(hdr) == U64And(pts_and_flags_of(hdr), ConfigMask) # U64Zero
size_of(hdr) == read_u32(SubSeq(hdr, 9, 12))

\* the flags kept in place: 0x80 | (b0 & 0xC0) | (b0 & 0x1F)
ReEncodeByte0_no_shift(b0) ==
    BitOr(BitOr(128, BitAnd(b0, 192)), BitAnd(b0, 31))

\* the flags moved two places: 0x80 | ((b0 & 0xC0) >> 2) | (b0 & 0x1F)
ReEncodeByte0_shift_two(b0) ==
    BitOr(BitOr(128, Shr(BitAnd(b0, 192), 2)), BitAnd(b0, 31))

\* bit 5 of the source kept: 0x80 | ((b0 & 0xC0) >> 1) | (b0 & 0x3F)
ReEncodeByte0_keeps_bit5(b0) ==
    BitOr(BitOr(128, Shr(BitAnd(b0, 192), 1)), BitAnd(b0, 63))

ReEncodeByte0(b0) ==
    BitOr(BitOr(128, Shr(BitAnd(b0, 192), 1)), BitAnd(b0, 31))

\* the re-encoded byte stored one place too far
ReEncode_off_by_one(hdr) == [hdr EXCEPT ![2] = ReEncodeByte0(hdr[1])]

ReEncode(hdr) == [hdr EXCEPT ![1] = ReEncodeByte0(hdr[1])]

\* [0, 0, 0, 0, b'h', b'2', b'6', b'4', 0, 0, 0, 0, 0, 0, 0, 0]
sid_and_codec_packet == <<0, 0, 0, 0, 104, 50, 54, 52, 0, 0, 0, 0, 0, 0, 0, 0>>

ChannelPrefix == <<0, 0, 0, 0>>

(***************************************************************************)
(* Source files of the model: every prefix, up to MaxFileLen bytes, of a   *)
(* stream of well-formed packets.                                          *)
(***************************************************************************)
Min(a, b) == IF a < b THEN a ELSE b

Take(s, n) == SubSeq(s, 1, Min(n, Len(s)))
Drop(s, n) == SubSeq(s, Min(n, Len(s)) + 1, Len(s))

\* the first 8 header bytes of the model's packets: a media packet whose PTS
\* has high bits set (0x05...), a key frame with PTS 2 (0x40...), a config
\* packet that is also a key frame (0xC5...)
Heads == { <<5, 1, 2, 3, 4, 5, 6, 7>>,
           <<64, 0, 0, 0, 0, 0, 0, 2>>,
           <<197, 1, 2, 3, 4, 5, 6, 7>> }
PayloadSizes == {0, 2}

PayloadOf(sz) == [j \in 1..sz |-> 160 + j]

Packet(head, sz) == head \o <<0, 0, 0, sz>> \o PayloadOf(sz)

Packets == {Packet(head, sz) : head \in Heads, sz \in PayloadSizes}

\* streams of whole packets, the last one cut at n bytes
RECURSIVE StreamsUpTo(_)
StreamsUpTo(n) ==
    IF n <= 0 THEN {<<>>}
    ELSE UNION {{Take(p, n) \o rest : rest \in StreamsUpTo(n - Len(p))} : p \in Packets}

Files == {Take(s, k) : s \in StreamsUpTo(MaxFileLen), k \in 0..MaxFileLen}

(***************************************************************************)
(* parse_kymux_url (main.rs 24-57).  A URL string is given by what         *)
(* url::Url::parse makes of it: whether it parses, its scheme, its host    *)
(* ("" when absent), its port (0 when absent) and its path, a sequence of  *)
(* characters.                                                             *)
(***************************************************************************)
HexDigits == <<"0", "1", "2", "3", "4", "5", "6", "7", "8", "9",
               "a", "b", "c", "d", "e", "f">>
UpperHex == <<"0", "1", "2", "3", "4", "5", "6", "7", "8", "9",
              "A", "B", "C", "D", "E", "F">>

IsHexDigit(c) == \E v \in 1..16 : HexDigits[v] = c \/ UpperHex[v] = c
HexValue(c) == (CHOOSE v \in 1..16 : HexDigits[v] = c \/ UpperHex[v] = c) - 1

\* host strings that parse as an IpAddr
IpLiterals == {"192.168.1.2", "::1"}

RECURSIVE StripZeros(_)
StripZeros(ds) == IF ds # <<>> /\ ds[1] = "0" THEN StripZeros(Tail(ds)) ELSE ds

\* u64::from_str_radix(path, 16): Ok with the 8 big-endian bytes, or Err
from_str_radix16(src) ==
    LET digits == IF Len(src) > 1 /\ src[1] = "+" THEN Tail(src) ELSE src
        sig == StripZeros(digits)
        nib == [i \in 1..16 |->
                  IF i <= 16 - Len(sig) THEN 0 ELSE HexValue(sig[i - (16 - Len(sig))])]
    IN  IF src = <<>> \/ \E i \in 1..Len(digits) : ~IsHexDigit(digits[i])
        THEN [ok |-> FALSE, value |-> U64Zero]
        ELSE IF Len(sig) > 16 THEN [ok |-> FALSE, value |-> U64Zero]
        ELSE [ok |-> TRUE, value |-> [i \in 1..8 |-> 16 * nib[2 * i - 1] + nib[2 * i]]]

InvalidUrl(msg) == [ok |-> FALSE, msg |-> msg]

parse_kymux_url(u) ==
    IF ~u.parses THEN InvalidUrl("parse error")
    ELSE IF u.scheme # "kymux" THEN InvalidUrl("Wrong scheme")
    ELSE IF u.host = "" THEN InvalidUrl("Missing host")
    ELSE IF u.host \notin IpLiterals THEN InvalidUrl("Invalid ip")
    ELSE IF u.port = 0 THEN InvalidUrl("Missing port")
    ELSE IF Len(u.path) < 2 THEN InvalidUrl("Empty path")
    ELSE LET path == Tail(u.path)
             parsed == from_str_radix16(path)
         IN  IF ~parsed.ok THEN InvalidUrl("Invalid endpoint")
             ELSE [ok |-> TRUE, addr |-> <<u.host, u.port>>, endpoint_id |-> parsed.value]

Url(scheme, host, port, path) ==
    [parses |-> TRUE, scheme |-> scheme, host |-> host, port |-> port, path |-> path]

\* a string url::Url::parse rejects
NotAUrl == [parses |-> FALSE, scheme |-> "", host |-> "", port |-> 0, path |-> <<>>]

\* kymux://192.168.1.2:1234/1f2E and the malformed addresses: not a URL, wrong
\* scheme, no host, a host that is no IP address, no port, empty path,
\* endpoint that is not hexadecimal
Urls == { Url("kymux", "192.168.1.2", 1234, <<"/", "1", "f", "2", "E">>),
          NotAUrl,
          Url("http", "192.168.1.2", 1234, <<"/", "1", "f">>),
          Url("kymux", "", 1234, <<"/", "1", "f">>),
          Url("kymux", "example.org", 1234, <<"/", "1", "f">>),
          Url("kymux", "::1", 0, <<"/", "1", "f">>),
          Url("kymux", "192.168.1.2", 1234, <<"/">>),
          Url("kymux", "192.168.1.2", 1234, <<"/", "1", "g">>) }

(***************************************************************************)
(* The source reader: Take<BufReader<File>> (main.rs 67-71).               *)
(*   fpos  : offset of the File                                            *)
(*   buf   : the bytes BufReader holds and has not handed out yet          *)
(*   limit : Take's limit                                                  *)
(* A read of a regular file returns what is left, up to the length asked.  *)
(***************************************************************************)
FileRead(file, fpos, n) == SubSeq(file, fpos + 1, Min(fpos + n, Len(file)))

\* BufReader::read that hands out the buffered bytes and does not consume them
BufReaderRead_no_consume(file, rd, n) ==
    IF rd.buf = <<>> /\ n >= BufCap
    THEN LET data == FileRead(file, rd.fpos, n)
         IN  [rd |-> [rd EXCEPT !.fpos = @ + Len(data)], data |-> data]
    ELSE LET got == IF rd.buf = <<>> THEN FileRead(file, rd.fpos, BufCap) ELSE <<>>
             filled == IF rd.buf = <<>> THEN got ELSE rd.buf
             data == Take(filled, n)
         IN  [rd |-> [rd EXCEPT !.fpos = @ + Len(got), !.buf = filled],
              data |-> data]

\* BufReader::read into a buffer of n bytes
BufReaderRead(file, rd, n) ==
    IF rd.buf = <<>> /\ n >= BufCap
    THEN \* no buffered data and a read as large as the buffer: bypass it
         LET data == FileRead(file, rd.fpos, n)
         IN  [rd |-> [rd EXCEPT !.fpos = @ + Len(data)], data |-> data]
    ELSE LET got == IF rd.buf = <<>> THEN FileRead(file, rd.fpos, BufCap) ELSE <<>>
             filled == IF rd.buf = <<>> THEN got ELSE rd.buf
             data == Take(filled, n)
         IN  [rd |-> [rd EXCEPT !.fpos = @ + Len(got), !.buf = Drop(filled, n)],
              data |-> data]

\* Take::read into a buffer of n bytes
TakeRead(file, rd, n) ==
    IF rd.limit = 0 THEN [rd |-> rd, data |-> <<>>]
    ELSE LET x == BufReaderRead(file, rd, Min(n, rd.limit))
         IN  [rd |-> [x.rd EXCEPT !.limit = @ - Len(x.data)], data |-> x.data]

set_limit(rd, n) == [rd EXCEPT !.limit = n]

\* io::copy, portable path: read into a stack buffer of DEFAULT_BUF_SIZE bytes
\* and write_all, until a read returns 0 bytes
RECURSIVE GenericCopy(_, _, _)
GenericCopy(file, rd, out) ==
    LET x == TakeRead(file, rd, BufCap)
    IN  IF x.data = <<>> THEN [rd |-> x.rd, data |-> out]
        ELSE GenericCopy(file, x.rd, out \o x.data)

\* the kernel copy that sends the whole limit after the buffered bytes
KernelCopy_forgets_drained(file, rd) ==
    LET drained == Take(rd.buf, rd.limit)
        left == rd.limit
        sent_ == FileRead(file, rd.fpos, left)
    IN  [rd |-> [fpos |-> rd.fpos + Len(sent_),
                 buf |-> Drop(rd.buf, rd.limit),
                 limit |-> left - Len(sent_)],
         data |-> drained \o sent_]

\* io::copy, Linux path (sys::kernel_copy): drain BufReader's buffer up to the
\* limit, then sendfile() from the file's offset up to what is left of the limit
KernelCopy(file, rd) ==
    LET drained == Take(rd.buf, rd.limit)
        left == rd.limit - Len(drained)
        sent_ == FileRead(file, rd.fpos, left)
    IN  [rd |-> [fpos |-> rd.fpos + Len(sent_),
                 buf |-> Drop(rd.buf, rd.limit),
                 limit |-> left - Len(sent_)],
         data |-> drained \o sent_]

io_copy(impl, file, rd) ==
    IF impl = "kernel" THEN KernelCopy(file, rd) ELSE GenericCopy(file, rd, <<>>)

(***************************************************************************)
(* State of a run of main().                                               *)
(***************************************************************************)
VARIABLES
    pc,           \* the statement main() is at, or has returned from
    result,       \* "running", "ok" (main returned Ok(())) or the error returned
    args,         \* the command line
    file,         \* the bytes of the source file
    copy_impl,    \* the io::copy of the platform: "kernel" or "generic"
    file_reader,  \* the Take<BufReader<File>>, once the file is open
    endpoint_id,  \* kymux_addr.endpoint_id, once parsed
    clock,        \* the monotonic clock
    start,        \* the Instant taken at main.rs 98
    header,       \* the header array of the current iteration
    r,            \* the result of the last read or copy call
    pace,         \* what the pacer did in the current iteration
    sync,         \* the count returned by the sync read
    sent,         \* the writes of the current phase (the handshake, or the
                  \* current iteration of the loop) and what the destination took
    iter,         \* headers read in full so far
    hdr_pos       \* offset in the source of the header of the current iteration

vars == <<pc, result, args, file, copy_impl, file_reader, endpoint_id, clock, start,
          header, r, pace, sync, sent, iter, hdr_pos>>

NoReader == [fpos |-> 0, buf |-> <<>>, limit |-> 0]
NoHeader == [i \in 1..HeaderLen |-> 0]
NoPace == [sampled |-> FALSE, slept |-> FALSE, elapsed |-> DurZero, to_wait |-> DurZero]

\* time the relay waits for the answer of the destination to the endpoint id
SyncWait == Dur(U64Of(1), 0)
\* time that passes between two readings of the clock
Elapse == {DurZero, Dur(U64Of(2), 500)}

Init ==
    /\ pc = "args"
    /\ result = "running"
    /\ \/ /\ args = <<"rtstreamer">>
          /\ file = <<>>
          /\ copy_impl = "generic"
       \/ /\ \E u \in Urls : args = <<"rtstreamer", "in.bin", u>>
          /\ file \in Files
          /\ copy_impl \in {"kernel", "generic"}
    /\ file_reader = NoReader
    /\ endpoint_id = U64Zero
    /\ clock = DurZero
    /\ start = DurZero
    /\ header = NoHeader
    /\ r = [ok |-> TRUE, n |-> 0]
    /\ pace = NoPace
    /\ sync = 0
    /\ sent = <<>>
    /\ iter = 0
    /\ hdr_pos = 0

\* main returns Ok(()) or Err from the statement it is at (the loop's break
\* leads to main.rs 144-145, which print and return Ok(()))
Return(res) == pc' = pc /\ result' = res

Running == result = "running"

\* Result<usize> of a read or copy call
Ok(n) == [ok |-> TRUE, n |-> n]
Err == [ok |-> FALSE, n |-> 0]

(***************************************************************************)
(* Start-up (main.rs 60-75).                                               *)
(***************************************************************************)
\* main.rs 60-65
CheckArgs ==
    /\ pc = "args" /\ Running
    /\ IF Len(args) # 3 THEN Return("SyntaxError")
       ELSE pc' = "open" /\ result' = result
    /\ UNCHANGED <<args, file, copy_impl, file_reader, endpoint_id, clock, start,
                   header, r, pace, sync, sent, iter, hdr_pos>>

\* main.rs 67-71: the file opens, or File::open fails
OpenFile ==
    /\ pc = "open" /\ Running
    /\ \/ /\ file_reader' = [fpos |-> 0, buf |-> <<>>, limit |-> 0]
          /\ pc' = "parse" /\ result' = result
       \/ /\ Return("Io") /\ UNCHANGED file_reader
    /\ UNCHANGED <<args, file, copy_impl, endpoint_id, clock, start,
                   header, r, pace, sync, sent, iter, hdr_pos>>

\* main.rs 73
ParseUrl ==
    /\ pc = "parse" /\ Running
    /\ LET kymux_addr == parse_kymux_url(args[3])
       IN  IF kymux_addr.ok
           THEN endpoint_id' = kymux_addr.endpoint_id /\ pc' = "connect" /\ result' = result
           ELSE Return("InvalidUrl") /\ UNCHANGED endpoint_id
    /\ UNCHANGED <<args, file, copy_impl, file_reader, clock, start,
                   header, r, pace, sync, sent, iter, hdr_pos>>

\* main.rs 75: the connection is made, or TcpStream::connect fails
Connect ==
    /\ pc = "connect" /\ Running
    /\ \/ pc' = "write_eid" /\ result' = result
       \/ Return("Io")
    /\ UNCHANGED <<args, file, copy_impl, file_reader, endpoint_id, clock, start,
                   header, r, pace, sync, sent, iter, hdr_pos>>

(***************************************************************************)
(* The destination socket.                                                 *)
(***************************************************************************)
\* Counts TcpStream::write may return for a buffer of len bytes: Write::write
\* takes the whole buffer or a part of it (a send() interrupted once part of
\* the buffer is queued returns the count queued so far).  The model lets a
\* short write leave out the last byte.
write_counts(len) == {n \in {len, len - 1} : 1 <= n}

\* offset of the next byte the reader hands out
SourcePos(rd) == rd.fpos - Len(rd.buf)

Written(kind, buf, n) ==
    [kind |-> kind, bytes |-> Take(buf, n), asked |-> Len(buf), at |-> clock, iter |-> iter]

\* the write whose error is dropped: the relay goes on to `next`
TcpWrite_ignores_error(kind, buf, next) ==
    \/ \E n \in write_counts(Len(buf)) :
          /\ sent' = Append(sent, Written(kind, buf, n))
          /\ pc' = next /\ result' = result
    \/ pc' = next /\ result' = result /\ UNCHANGED sent

\* tcp_stream.write(buf)?: Ok(n) and on to `next`, or Err
TcpWrite(kind, buf, next) ==
    \/ \E n \in write_counts(Len(buf)) :
          /\ sent' = Append(sent, Written(kind, buf, n))
          /\ pc' = next /\ result' = result
    \/ Return("Io") /\ UNCHANGED sent

(***************************************************************************)
(* Handshake (main.rs 94-101).                                             *)
(***************************************************************************)
\* main.rs 94
WriteEndpointId ==
    /\ pc = "write_eid" /\ Running
    /\ TcpWrite("endpoint_id", endpoint_id, "read_sync")
    /\ UNCHANGED <<args, file, copy_impl, file_reader, endpoint_id, clock, start,
                   header, r, pace, sync, iter, hdr_pos>>

\* main.rs 96: read() blocks, then returns Ok(1) with the sync byte, Ok(0) when
\* the destination has closed its side, or Err
ReadSync ==
    /\ pc = "read_sync" /\ Running
    /\ clock' = DurAdd(clock, SyncWait)
    /\ \/ /\ sync' \in {1, 0}
          /\ pc' = "start" /\ result' = result
       \/ Return("Io") /\ UNCHANGED sync
    /\ UNCHANGED <<args, file, copy_impl, file_reader, endpoint_id, start,
                   header, r, pace, sent, iter, hdr_pos>>

\* main.rs 98
TakeStart ==
    /\ pc = "start" /\ Running
    /\ start' = clock
    /\ pc' = "write_codec"
    /\ UNCHANGED <<result, args, file, copy_impl, file_reader, endpoint_id, clock,
                   header, r, pace, sync, sent, iter, hdr_pos>>

\* main.rs 100-101
WriteCodec ==
    /\ pc = "write_codec" /\ Running
    /\ TcpWrite("codec", sid_and_codec_packet, "read_header")
    /\ UNCHANGED <<args, file, copy_impl, file_reader, endpoint_id, clock, start,
                   header, r, pace, sync, iter, hdr_pos>>

(***************************************************************************)
(* The relay loop (main.rs 103-143) and the return (main.rs 144-145).      *)
(***************************************************************************)
\* the header read without the test of the count read
ReadHeader_no_break ==
    /\ pc = "read_header" /\ Running
    /\ LET x == TakeRead(file, set_limit(file_reader, HeaderLen), HeaderLen)
       IN  /\ file_reader' = x.rd
           /\ header' = [i \in 1..HeaderLen |->
                           IF i <= Len(x.data) THEN x.data[i] ELSE 0]
           /\ r' = Ok(Len(x.data))
           /\ pc' = "pace" /\ result' = result
           /\ sent' = <<>>
           /\ pace' = NoPace
           /\ iter' = iter + 1
           /\ hdr_pos' = SourcePos(file_reader)
    /\ iter < 3
    /\ UNCHANGED <<args, file, copy_impl, endpoint_id, clock, start, sync>>

\* the header read that ends the loop only when the read returns no byte
ReadHeader_break_on_zero ==
    /\ pc = "read_header" /\ Running
    /\ \/ LET x == TakeRead(file, set_limit(file_reader, HeaderLen), HeaderLen)
          IN  /\ file_reader' = x.rd
              /\ header' = [i \in 1..HeaderLen |->
                              IF i <= Len(x.data) THEN x.data[i] ELSE 0]
              /\ r' = Ok(Len(x.data))
              /\ IF Len(x.data) = 0
                 THEN Return("ok") /\ UNCHANGED <<sent, iter, hdr_pos, pace>>
                 ELSE /\ pc' = "pace" /\ result' = result
                      /\ sent' = <<>>
                      /\ pace' = NoPace
                      /\ iter' = iter + 1
                      /\ hdr_pos' = SourcePos(file_reader)
       \/ /\ Return("Io")
          /\ r' = Err
          /\ UNCHANGED <<file_reader, header, sent, iter, hdr_pos, pace>>
    /\ UNCHANGED <<args, file, copy_impl, endpoint_id, clock, start, sync>>

\* main.rs 104-110: one read of up to 12 bytes; fewer than 12 ends the loop
ReadHeader ==
    /\ pc = "read_header" /\ Running
    /\ \/ LET x == TakeRead(file, set_limit(file_reader, HeaderLen), HeaderLen)
          IN  /\ file_reader' = x.rd
              /\ header' = [i \in 1..HeaderLen |->
                              IF i <= Len(x.data) THEN x.data[i] ELSE 0]
              /\ r' = Ok(Len(x.data))
              /\ IF Len(x.data) < HeaderLen
                 THEN Return("ok") /\ UNCHANGED <<sent, iter, hdr_pos, pace>>
                 ELSE /\ pc' = "pace" /\ result' = result
                      /\ sent' = <<>>
                      /\ pace' = NoPace
                      /\ iter' = iter + 1
                      /\ hdr_pos' = SourcePos(file_reader)
       \/ /\ Return("Io")
          /\ r' = Err
          /\ UNCHANGED <<file_reader, header, sent, iter, hdr_pos, pace>>
    /\ UNCHANGED <<args, file, copy_impl, endpoint_id, clock, start, sync>>

\* a sleep that returns at once
sleep_returns_at_once(now, d) == now

\* std::thread::sleep(d) entered at `now`: the instant it returns (later wake-ups
\* are the time that passes before the next reading of the clock)
sleep(now, d) == DurAdd(now, d)

\* the wait taken to be the target, elapsed not subtracted
Pacer_waits_target(hdr, now) ==
    LET elapsed == DurSub(now, start)
        target == from_micros(pts_of(hdr))
    IN  IF ~is_config_of(hdr)
        THEN IF DurLess(elapsed, target)
             THEN [sampled |-> TRUE, slept |-> TRUE, elapsed |-> elapsed,
                   to_wait |-> target, wake |-> sleep(now, target)]
             ELSE [sampled |-> TRUE, slept |-> FALSE, elapsed |-> elapsed,
                   to_wait |-> DurZero, wake |-> now]
        ELSE [sampled |-> FALSE, slept |-> FALSE, elapsed |-> DurZero,
              to_wait |-> DurZero, wake |-> clock]

\* main.rs 117-126, for the header decoded at main.rs 112-115
Pacer(hdr, now) ==
    LET pts == pts_of(hdr)
        is_config == is_config_of(hdr)
        elapsed == DurSub(now, start)
        target == from_micros(pts)
    IN  IF ~is_config
        THEN IF DurLess(elapsed, target)
             THEN [sampled |-> TRUE, slept |-> TRUE, elapsed |-> elapsed,
                   to_wait |-> DurSub(target, elapsed),
                   wake |-> sleep(now, DurSub(target, elapsed))]
             ELSE [sampled |-> TRUE, slept |-> FALSE, elapsed |-> elapsed,
                   to_wait |-> DurZero, wake |-> now]
        ELSE [sampled |-> FALSE, slept |-> FALSE, elapsed |-> DurZero,
              to_wait |-> DurZero, wake |-> clock]

\* the pacer that takes the start instant anew for each packet
Pace_takes_start ==
    /\ pc = "pace" /\ Running
    /\ \E d \in Elapse :
          LET now == IF is_config_of(header) THEN clock ELSE DurAdd(clock, d)
              p == Pacer(header, now)
          IN  /\ pace' = [sampled |-> p.sampled, slept |-> p.slept,
                          elapsed |-> p.elapsed, to_wait |-> p.to_wait]
              /\ clock' = p.wake
              /\ start' = now
    /\ pc' = "write_prefix"
    /\ UNCHANGED <<result, args, file, copy_impl, file_reader, endpoint_id,
                   header, r, sync, sent, iter, hdr_pos>>

\* main.rs 112-126
Pace ==
    /\ pc = "pace" /\ Running
    /\ \E d \in Elapse :
          LET now == IF is_config_of(header) THEN clock ELSE DurAdd(clock, d)
              p == Pacer(header, now)
          IN  /\ pace' = [sampled |-> p.sampled, slept |-> p.slept,
                          elapsed |-> p.elapsed, to_wait |-> p.to_wait]
              /\ clock' = p.wake
    /\ pc' = "write_prefix"
    /\ UNCHANGED <<result, args, file, copy_impl, file_reader, endpoint_id, start,
                   header, r, sync, sent, iter, hdr_pos>>

\* main.rs 128-134 (the progress line printed at 128-129 is not part of the
\* relay's state)
WritePrefix ==
    /\ pc = "write_prefix" /\ Running
    /\ header' = ReEncode(header)
    /\ TcpWrite("prefix", ChannelPrefix, "write_header")
    /\ UNCHANGED <<args, file, copy_impl, file_reader, endpoint_id, clock, start,
                   r, pace, sync, iter, hdr_pos>>

\* main.rs 135
WriteHeader ==
    /\ pc = "write_header" /\ Running
    /\ TcpWrite("header", header, "copy")
    /\ UNCHANGED <<args, file, copy_impl, file_reader, endpoint_id, clock, start,
                   header, r, pace, sync, iter, hdr_pos>>

\* the copy without the test of the count copied
CopyPayload_no_break ==
    /\ pc = "copy" /\ Running
    /\ LET x == io_copy(copy_impl, file, set_limit(file_reader, size_of(header)))
       IN  /\ file_reader' = x.rd
           /\ r' = Ok(Len(x.data))
           /\ sent' = IF x.data = <<>> THEN sent
                      ELSE Append(sent, Written("payload", x.data, Len(x.data)))
           /\ pc' = "read_header" /\ result' = result
    /\ UNCHANGED <<args, file, copy_impl, endpoint_id, clock, start,
                   header, pace, sync, iter, hdr_pos>>

\* the copy that also ends the loop when the count equals the size
CopyPayload_breaks_on_equal ==
    /\ pc = "copy" /\ Running
    /\ LET size == size_of(header)
           x == io_copy(copy_impl, file, set_limit(file_reader, size))
       IN  \/ /\ file_reader' = x.rd
              /\ r' = Ok(Len(x.data))
              /\ sent' = IF x.data = <<>> THEN sent
                         ELSE Append(sent, Written("payload", x.data, Len(x.data)))
              /\ IF Len(x.data) <= size THEN Return("ok")
                 ELSE pc' = "read_header" /\ result' = result
           \/ /\ \E k \in 0..Len(x.data) :
                    /\ k < size
                    /\ sent' = IF k = 0 THEN sent
                               ELSE Append(sent, Written("payload", x.data, k))
              /\ Return("Io")
              /\ r' = Err
              /\ UNCHANGED file_reader
    /\ UNCHANGED <<args, file, copy_impl, endpoint_id, clock, start,
                   header, pace, sync, iter, hdr_pos>>

\* main.rs 137-142: io::copy moves what the limit allows and the source still
\* has; a count below size ends the loop.  A failed copy has written k bytes.
CopyPayload ==
    /\ pc = "copy" /\ Running
    /\ LET size == size_of(header)
           x == io_copy(copy_impl, file, set_limit(file_reader, size))
       IN  \/ /\ file_reader' = x.rd
              /\ r' = Ok(Len(x.data))
              /\ sent' = IF x.data = <<>> THEN sent
                         ELSE Append(sent, Written("payload", x.data, Len(x.data)))
              /\ IF Len(x.data) < size THEN Return("ok")
                 ELSE pc' = "read_header" /\ result' = result
           \/ /\ \E k \in 0..Len(x.data) :
                    /\ k < size
                    /\ sent' = IF k = 0 THEN sent
                               ELSE Append(sent, Written("payload", x.data, k))
              /\ Return("Io")
              /\ r' = Err
              /\ UNCHANGED file_reader
    /\ UNCHANGED <<args, file, copy_impl, endpoint_id, clock, start,
                   header, pace, sync, iter, hdr_pos>>

Next ==
    \/ CheckArgs
    \/ OpenFile
    \/ ParseUrl
    \/ Connect
    \/ WriteEndpointId
    \/ ReadSync
    \/ TakeStart
    \/ WriteCodec
    \/ ReadHeader
    \/ Pace
    \/ WritePrefix
    \/ WriteHeader
    \/ CopyPayload

Spec == Init /\ [][Next]_vars

(***************************************************************************)
(* The relay loop on every header: the source holds one 12-byte header     *)
(* whose first byte takes every value, and the run starts where the        *)
(* handshake has been made (main.rs 103).  Decode (main.rs 112-115) and    *)
(* the re-encoding (main.rs 132) are applied by the actions of the loop.   *)
(***************************************************************************)
\* bytes 1 to 7 of the headers
CodecPtsTails == {<<1, 2, 3, 4, 5, 6, 7>>}
\* bytes 8 to 11 of the headers: payload_size 0 and 0x01020304
CodecSizes == {<<0, 0, 0, 0>>, <<1, 2, 3, 4>>}

CodecHeaders ==
    {<<b0>> \o tail \o sz : b0 \in 0..255, tail \in CodecPtsTails, sz \in CodecSizes}

CodecInit ==
    /\ pc = "read_header"
    /\ result = "running"
    /\ \E u \in Urls :
          /\ parse_kymux_url(u).ok
          /\ args = <<"rtstreamer", "in.bin", u>>
          /\ endpoint_id = parse_kymux_url(u).endpoint_id
    /\ file \in CodecHeaders
    /\ copy_impl = "kernel"
    /\ file_reader = NoReader
    /\ clock = SyncWait
    /\ start = SyncWait
    /\ header = NoHeader
    /\ r = [ok |-> TRUE, n |-> 0]
    /\ pace = NoPace
    /\ sync = 1
    /\ sent = << [kind |-> "endpoint_id", bytes |-> endpoint_id, asked |-> 8,
                  at |-> DurZero, iter |-> 0],
                 [kind |-> "codec", bytes |-> sid_and_codec_packet, asked |-> 16,
                  at |-> SyncWait, iter |-> 0] >>
    /\ iter = 0
    /\ hdr_pos = 0

CodecNext ==
    \/ ReadHeader
    \/ Pace
    \/ WritePrefix
    \/ WriteHeader
    \/ CopyPayload

(***************************************************************************)
(* Runs under fairness, on the prefixes of a two-packet source.  main() is *)
(* one sequential thread: a statement that can be executed is executed (a  *)
(* blocking call returns, a sleep ends).                                   *)
(***************************************************************************)
\* a key frame with PTS 2 and a 2-byte payload, then a packet without payload
TermStream == Packet(<<64, 0, 0, 0, 0, 0, 0, 2>>, 2) \o Packet(<<5, 1, 2, 3, 4, 5, 6, 7>>, 0)

\* the empty source, the stream cut in the first header and in the first
\* payload, and the whole stream
TermFiles == {Take(TermStream, k) : k \in {0, 5, 13, 26}}

TermInit == Init /\ file \in TermFiles

FairSpec == TermInit /\ [][Next]_vars /\ WF_vars(Next)

CodecSpec == CodecInit /\ [][CodecNext]_vars

(***************************************************************************)
(* Vocabulary of the properties.                                           *)
(***************************************************************************)
\* the bytes the destination took from the writes of the current phase
RECURSIVE Flat(_)
Flat(evs) == IF evs = <<>> THEN <<>> ELSE Head(evs).bytes \o Flat(Tail(evs))

Kinds(evs) == [i \in 1..Len(evs) |-> evs[i].kind]

\* the header of the current iteration as it is in the source
SrcHeader == SubSeq(file, hdr_pos + 1, hdr_pos + HeaderLen)

\* the payload bytes the source holds for the current header
SrcPayload ==
    SubSeq(file, hdr_pos + HeaderLen + 1,
           Min(hdr_pos + HeaderLen + size_of(SrcHeader), Len(file)))

\* offset of the k-th packet of a well-formed stream
RECURSIVE PacketOffset(_, _)
PacketOffset(f, k) ==
    IF k = 1 THEN 0
    ELSE LET o == PacketOffset(f, k - 1)
         IN  o + HeaderLen + size_of(SubSeq(f, o + 1, o + HeaderLen))

\* the loop is in an iteration whose header was read in full
InPacket == iter >= 1 /\ pc \in {"pace", "write_prefix", "write_header", "copy"}

\* the last packet was copied in full (the loop is back at the header read)
Forwarded == iter >= 1 /\ pc = "read_header"

\* source bytes left where the last header read started
LeftAtHeaderRead == Len(file) - (SourcePos(file_reader) - r.n)

(***************************************************************************)
(* C1. Handshake ordering: the endpoint id is written first, and no byte   *)
(* of the codec announcement or of a data packet is written unless the     *)
(* sync read has received the sync byte, also when that read returns zero  *)
(* bytes because the destination closed.                                   *)
(***************************************************************************)
C1_SyncBeforeCodec ==
    /\ \A i \in 1..Len(sent) : sent[i].kind # "endpoint_id" => sync = 1
    /\ \A i \in 1..Len(sent) : sent[i].kind = "codec" => i = 2 /\ sent[1].kind = "endpoint_id"

(***************************************************************************)
(* C2. Steady-state framing: for every forwarded packet the destination    *)
(* receives, contiguously, the 4 zero prefix bytes, the 12 header bytes    *)
(* and the payload_size payload bytes of the source, packet after packet   *)
(* in source order.                                                        *)
(***************************************************************************)
C2_Framing ==
    Forwarded =>
        /\ hdr_pos = PacketOffset(file, iter)
        /\ Flat(sent) = ChannelPrefix \o ReEncode(SrcHeader) \o SrcPayload
        /\ Len(SrcPayload) = size_of(SrcHeader)

(***************************************************************************)
(* C3. The loop ends with success only where the source has fewer than 12  *)
(* bytes left for a header, or fewer than payload_size bytes left for a    *)
(* payload: a header read that returns fewer than 12 bytes while the       *)
(* source holds more does not end the relay.                               *)
(***************************************************************************)
C3_NoPrematureStop ==
    /\ (result = "ok" /\ pc = "read_header") => LeftAtHeaderRead < HeaderLen
    /\ (result = "ok" /\ pc = "copy") =>
           Len(file) - (hdr_pos + HeaderLen) < size_of(SrcHeader)

(***************************************************************************)
(* C4. Absolute pacing: no byte of a non-config packet (prefix, header or  *)
(* payload) is written earlier than pts microseconds after the start       *)
(* instant, pts being the low 62 bits of the first 8 header bytes.         *)
(***************************************************************************)
\* the low 62 bits of the first 8 bytes of the source header
SrcPts == <<SrcHeader[1] % 64>> \o SubSeq(SrcHeader, 2, 8)
\* bit 63 of the source header
SrcIsConfig == SrcHeader[1] >= 128

C4_AbsolutePacing ==
    (iter >= 1 /\ ~SrcIsConfig) =>
        \A i \in 1..Len(sent) : DurLeq(DurAdd(start, Dur(SrcPts, 0)), sent[i].at)

C4_Witness ==
    /\ iter >= 1 /\ ~SrcIsConfig
    /\ pace.slept
    /\ Kinds(sent) = <<"prefix", "header", "payload">>

(***************************************************************************)
(* C5. A packet whose header has bit 63 set is never delayed: the relay    *)
(* neither reads the clock nor sleeps between reading its header and       *)
(* writing it, whatever its timestamp.                                     *)
(***************************************************************************)
C5_ConfigNotDelayed ==
    (iter >= 1 /\ SrcIsConfig) =>
        /\ ~pace.slept /\ ~pace.sampled /\ pace.to_wait = DurZero
        /\ \A i \in 1..Len(sent) : sent[i].at = clock

\* a config packet written although its timestamp lies in the future
C5_Witness ==
    /\ iter >= 1 /\ SrcIsConfig
    /\ DurLess(DurSub(clock, start), Dur(SrcPts, 0))
    /\ \E i \in 1..Len(sent) : sent[i].kind = "header"

(***************************************************************************)
(* C6. Late packets: the wait of a non-config packet is max(0, pts -       *)
(* elapsed), elapsed being the time since start when the packet is paced;  *)
(* a packet whose pts is not greater than elapsed is written without a     *)
(* sleep, also when its pts is not above that of an earlier packet.        *)
(***************************************************************************)
C6_LatePackets ==
    /\ (InPacket /\ pc # "pace" /\ ~SrcIsConfig) => pace.sampled
    /\ (iter >= 1 /\ pace.sampled) =>
          /\ clock = DurAdd(start, DurAdd(pace.elapsed, pace.to_wait))
          /\ IF DurLess(pace.elapsed, Dur(SrcPts, 0))
             THEN pace.slept /\ DurAdd(pace.elapsed, pace.to_wait) = Dur(SrcPts, 0)
             ELSE ~pace.slept /\ pace.to_wait = DurZero

\* the second packet, whose pts is not above the first packet's, written late
C6_Witness ==
    /\ iter = 2 /\ ~SrcIsConfig
    /\ pace.sampled /\ ~pace.slept
    /\ ~U64Less(pts_of(SubSeq(file, 1, HeaderLen)), SrcPts)
    /\ DurLess(Dur(SrcPts, 0), pace.elapsed)
    /\ \E i \in 1..Len(sent) : sent[i].kind = "header" /\ Len(sent[i].bytes) = HeaderLen

(***************************************************************************)
(* C7. Re-encoding of byte 0: the first header byte written is             *)
(* 0x80 | ((b0 & 0xC0) >> 1) | (b0 & 0x1F) of the source's b0, applied     *)
(* once (0xC5 becomes 0xE5, 0x05 becomes 0x85).                            *)
(***************************************************************************)
\* the formula, in arithmetic: bit 7 set, bits 7..6 of b moved to bits 6..5,
\* bits 4..0 kept
Expected0(b) == 128 + (b \div 64) * 32 + (b % 32)

C7_Byte0 ==
    /\ pc = "args" =>
          /\ \A b \in 0..255 : ReEncodeByte0(b) = Expected0(b)
          /\ ReEncodeByte0(197) = 229 /\ ReEncodeByte0(5) = 133
    /\ (iter >= 1 /\ pc \in {"write_header", "copy"}) =>
          header[1] = Expected0(SrcHeader[1])
    /\ iter >= 1 =>
          \A i \in 1..Len(sent) :
              sent[i].kind = "header" => sent[i].bytes[1] = Expected0(SrcHeader[1])

C7_Witness ==
    /\ iter >= 1 /\ SrcHeader[1] = 197
    /\ \E i \in 1..Len(sent) : sent[i].kind = "header" /\ sent[i].bytes[1] = 229

(***************************************************************************)
(* C8. Header bytes 1 to 11 written to the destination are the header      *)
(* bytes 1 to 11 read from the source; only byte 0 differs.                *)
(***************************************************************************)
C8_RestOfHeader ==
    iter >= 1 =>
        /\ pc \in {"pace", "write_prefix", "write_header", "copy"} =>
              \A j \in 2..HeaderLen : header[j] = SrcHeader[j]
        /\ \A i \in 1..Len(sent) :
              sent[i].kind = "header" =>
                  \A j \in 2..Len(sent[i].bytes) : sent[i].bytes[j] = SrcHeader[j]

C8_Witness ==
    /\ iter >= 1
    /\ \E i \in 1..Len(sent) :
          /\ sent[i].kind = "header" /\ Len(sent[i].bytes) = HeaderLen
          /\ SubSeq(sent[i].bytes, 2, 8) = <<1, 2, 3, 4, 5, 6, 7>>
          /\ sent[i].bytes[12] = 2

(***************************************************************************)
(* C9. Clean end of stream: a header read that returns 0 bytes ends the    *)
(* run with success and nothing more is written; a run that has returned   *)
(* takes no further step.                                                  *)
(***************************************************************************)
C9_CleanEof ==
    [][ /\ Running
        /\ (pc = "read_header" /\ r'.ok /\ r'.n = 0) =>
              (result' = "ok" /\ pc' = pc /\ sent' = sent /\ clock' = clock) ]_vars

C9_Witness ==
    pc = "read_header" /\ result = "ok" /\ r.n = 0 /\ iter >= 1

(***************************************************************************)
(* C10. Truncated payload: when the copy returns fewer bytes than the      *)
(* header declares, the prefix and the header have been written, the       *)
(* payload bytes the source still had have been written, and the run ends  *)
(* with success without a further read, sleep or write.                    *)
(***************************************************************************)
C10_TruncatedPayload ==
    [][ /\ Running
        /\ (pc = "copy" /\ r'.ok /\ r'.n < size_of(header)) =>
              /\ result' = "ok" /\ pc' = pc /\ clock' = clock
              /\ r'.n = Len(file) - (hdr_pos + HeaderLen)
              /\ Kinds(sent') = IF r'.n = 0 THEN <<"prefix", "header">>
                                ELSE <<"prefix", "header", "payload">>
              /\ \A i \in 1..Len(sent') :
                    /\ sent'[i].kind = "prefix" => sent'[i].asked = PrefixLen
                    /\ sent'[i].kind = "header" => sent'[i].asked = HeaderLen
                    /\ sent'[i].kind = "payload" =>
                          sent'[i].bytes = SubSeq(file, hdr_pos + HeaderLen + 1, Len(file)) ]_vars

C10_Witness ==
    pc = "copy" /\ result = "ok" /\ r.n = 1 /\ size_of(header) = 2

(***************************************************************************)
(* C11. Truncated header: a header read that returns between 1 and 11      *)
(* bytes is taken for the end of the stream: the run ends with success,    *)
(* the relay does not pace, and no prefix and no byte of the partial       *)
(* header is written.                                                      *)
(***************************************************************************)
C11_TruncatedHeader ==
    [][ (pc = "read_header" /\ r'.ok /\ r'.n \in 1..(HeaderLen - 1)) =>
            /\ result' = "ok" /\ pc' = pc
            /\ sent' = sent /\ clock' = clock /\ pace' = pace
            /\ iter' = iter ]_vars

\* the source ends 5 bytes into the second header
C11_Witness ==
    /\ pc = "read_header" /\ result = "ok" /\ iter = 1
    /\ r.n = 5 /\ LeftAtHeaderRead = 5
    /\ \A i \in 1..Len(sent) : sent[i].iter = 1

(***************************************************************************)
(* C12. Fatal I/O failures: a failed open, connect, write, sync read,      *)
(* header read or payload copy ends the run at once with the I/O error:    *)
(* the run stays at the failing statement, no step follows it (no read,    *)
(* sleep, write or retry), the writes made before it stay as they are, and *)
(* the relay goes past a write only when the write has returned a count.   *)
(***************************************************************************)
IoStatements == {"open", "connect", "write_eid", "read_sync", "write_codec",
                 "read_header", "write_prefix", "write_header", "copy"}
WriteStatements == {"write_eid", "write_codec", "write_prefix", "write_header"}

C12_FatalIo ==
    [][ /\ result # "Io"
        /\ result' = "Io" =>
              /\ pc \in IoStatements /\ pc' = pc
              /\ Len(sent') >= Len(sent) /\ SubSeq(sent', 1, Len(sent)) = sent
              /\ pace' = pace /\ start' = start
              /\ pc # "read_sync" => clock' = clock
        /\ ~r'.ok => result' = "Io"
        /\ (pc \in {"read_header", "copy"} /\ result' # "Io") => r'.ok
        /\ (pc \in WriteStatements /\ result' # "Io") =>
              /\ Len(sent') = Len(sent) + 1
              /\ Len(sent'[Len(sent')].bytes) >= 1 ]_vars

\* the header write fails after the prefix was written in the second iteration
C12_Witness ==
    /\ result = "Io" /\ pc = "write_header" /\ iter = 2
    /\ Kinds(sent) = <<"prefix">>

(***************************************************************************)
(* C13. A malformed destination address is reported before any I/O: when   *)
(* the address is invalid the run does not get past the opening of the     *)
(* source file (no file is opened, no connection is attempted) and it ends *)
(* with the address error, not with an I/O error.                          *)
(***************************************************************************)
AddressInvalid == Len(args) = 3 /\ ~parse_kymux_url(args[3]).ok

C13_AddressBeforeIo ==
    AddressInvalid =>
        /\ pc \in {"args", "open"}
        /\ result # "Io"

(***************************************************************************)
(* C14. Decode, for every 12-byte header: the timestamp is the low 62 bits *)
(* of the big-endian first 8 bytes (its bits 63 and 62 are zero), the      *)
(* config flag is bit 63, the payload size is the big-endian u32 of bytes  *)
(* 8..11; the pacer uses that flag and that timestamp.  As stated in the   *)
(* claim: the high 6 bits (63..58) of the timestamp are zero.              *)
(***************************************************************************)
\* the header has been decoded and paced and is not yet re-encoded
Decoded == pc = "write_prefix" /\ Running

C14_High6BitsZero ==
    Decoded => pts_of(header)[1] < 4

C14_Decode ==
    Decoded =>
        /\ pts_of(header)[1] < 64
        /\ pts_of(header) = <<SrcHeader[1] % 64>> \o SubSeq(SrcHeader, 2, 8)
        /\ is_config_of(header) = (SrcHeader[1] >= 128)
        /\ \A j \in 0..3 :
              (size_of(header) \div (256 ^ j)) % 256 = SrcHeader[HeaderLen - j]
        /\ pace.sampled = (SrcHeader[1] < 128)
        /\ pace.slept =>
              DurAdd(pace.elapsed, pace.to_wait) =
                  Dur(<<SrcHeader[1] % 64>> \o SubSeq(SrcHeader, 2, 8), 0)

\* a config key frame whose timestamp has bits 58 and 56 set, size 0x01020304
C14_Witness ==
    /\ Decoded /\ SrcHeader[1] = 197
    /\ pts_of(header)[1] = 5 /\ is_config_of(header)
    /\ size_of(header) = 16909060

(***************************************************************************)
(* C15. The re-encoding of byte 0 applied to a byte it has produced gives  *)
(* another byte exactly when the source byte is below 0xC0; for a source   *)
(* byte with bits 7 and 6 set, the second application changes nothing.  As *)
(* stated in the claim: for every byte value, applying the formula twice   *)
(* differs from applying it once.                                          *)
(***************************************************************************)
\* the header of the current iteration has been re-encoded once
ReEncoded == iter >= 1 /\ pc \in {"write_header", "copy"}

C15_NeverIdempotent ==
    ReEncoded => ReEncodeByte0(header[1]) # header[1]

C15_TwiceVsOnce ==
    ReEncoded => ((ReEncodeByte0(header[1]) # header[1]) <=> SrcHeader[1] < 192)

\* 0x05 becomes 0x85, which the formula would turn into 0xC5
C15_Witness ==
    /\ ReEncoded /\ SrcHeader[1] = 5
    /\ header[1] = 133 /\ ReEncodeByte0(header[1]) = 197

(***************************************************************************)
(* C20. Timestamp preservation: in the header written to the destination,  *)
(* bits 60..0 of the first 8 bytes are those of the source header, bit 61  *)
(* is the source's key-frame flag (bit 62), bit 62 the source's config     *)
(* flag (bit 63) and bit 63 is 1; when the decoded PTS is below 2^61 the   *)
(* timestamp written is the PTS the pacer used.                            *)
(***************************************************************************)
C20_TimestampPreserved ==
    iter >= 1 =>
        \A i \in 1..Len(sent) :
            sent[i].kind = "header" =>
                LET b == sent[i].bytes
                    s == SrcHeader
                IN  /\ b[1] % 32 = s[1] % 32
                    /\ \A j \in 2..8 : b[j] = s[j]
                    /\ (b[1] \div 32) % 2 = (s[1] \div 64) % 2
                    /\ (b[1] \div 64) % 2 = s[1] \div 128
                    /\ b[1] \div 128 = 1
                    /\ pts_of(s)[1] < 32 =>
                          /\ <<b[1] % 32>> \o SubSeq(b, 2, 8) = pts_of(s)
                          /\ pace.slept =>
                                DurAdd(pace.elapsed, pace.to_wait) =
                                    Dur(<<b[1] % 32>> \o SubSeq(b, 2, 8), 0)

\* a key frame (0x45) paced by its PTS and written with first byte 0xA5
C20_Witness ==
    /\ iter >= 1 /\ SrcHeader[1] = 69 /\ pace.slept
    /\ \E i \in 1..Len(sent) :
          /\ sent[i].kind = "header" /\ Len(sent[i].bytes) = HeaderLen
          /\ sent[i].bytes[1] = 165

(***************************************************************************)
(* C16. The start instant is taken once: by the statement that follows the *)
(* sync read, as the clock reads then, when nothing but the endpoint id    *)
(* has been written; no other step assigns it, and the elapsed time of     *)
(* every paced packet is the time since that instant.                      *)
(***************************************************************************)
C16_StartOnce ==
    [][ /\ pc # "start" => start' = start
        /\ (pc' = "start" /\ pc # "start") => pc = "read_sync"
        /\ pc = "start" =>
              /\ start' = clock /\ clock' = clock
              /\ Kinds(sent) = <<"endpoint_id">> /\ sent' = sent
              /\ iter = 0 /\ pc' = "write_codec"
        /\ (pc = "pace" /\ pace'.sampled) =>
              clock' = DurAdd(start', DurAdd(pace'.elapsed, pace'.to_wait)) ]_vars

\* the second packet paced against the instant taken after the sync read
C16_Witness ==
    /\ iter = 2 /\ pc = "write_prefix" /\ pace.sampled
    /\ start = SyncWait /\ DurLess(start, clock)

(***************************************************************************)
(* C17. Termination: every run on a finite source returns; a header read   *)
(* either ends the run or moves the source position 12 bytes forward, so   *)
(* the loop makes at most Len(file) / 12 iterations; a sleep lasts no      *)
(* longer than the PTS of the packet.                                      *)
(***************************************************************************)
C17_Termination ==
    /\ <>(result # "running")
    /\ [][ pc = "read_header" =>
             \/ result' # "running"
             \/ SourcePos(file_reader') = SourcePos(file_reader) + HeaderLen ]_vars
    /\ [](iter * HeaderLen <= Len(file))
    /\ [](pace.slept => DurLeq(pace.to_wait, Dur(SrcPts, 0)))

\* a run that returns with success after two iterations and a sleep
C17_Witness ==
    /\ result = "ok" /\ iter = 2 /\ pace.slept
    /\ sync = 1
    /\ \A i \in 1..Len(sent) : Len(sent[i].bytes) = sent[i].asked

(***************************************************************************)
(* C18. Packet-boundary alignment: every header read of the loop starts at *)
(* the sum of 12 + payload_size over the packets before it; the header     *)
(* read takes 12 bytes and the payload copy takes no more than             *)
(* payload_size bytes, and exactly payload_size when the packet is         *)
(* forwarded in full.                                                      *)
(***************************************************************************)
C18_Alignment ==
    /\ InPacket =>
          /\ hdr_pos = PacketOffset(file, iter)
          /\ SourcePos(file_reader) >= hdr_pos + HeaderLen
          /\ SourcePos(file_reader) <= hdr_pos + HeaderLen + size_of(SrcHeader)
          /\ pc # "copy" => SourcePos(file_reader) = hdr_pos + HeaderLen
    /\ (Forwarded /\ Running) =>
          /\ hdr_pos = PacketOffset(file, iter)
          /\ SourcePos(file_reader) = hdr_pos + HeaderLen + size_of(SrcHeader)
          /\ SourcePos(file_reader) = PacketOffset(file, iter + 1)

\* two packets forwarded by the kernel copy, the first with 2 payload bytes,
\* one of which was in BufReader's buffer
C18_Witness ==
    /\ Forwarded /\ Running /\ iter = 2 /\ copy_impl = "kernel"
    /\ hdr_pos = 14 /\ SourcePos(file_reader) = 26

(***************************************************************************)
(* C19. A packet whose payload_size is 0: the copy returns 0, nothing is   *)
(* written after the prefix and the header, and the run goes on to the     *)
(* next header read; it does not return.                                   *)
(***************************************************************************)
C19_EmptyPayload ==
    [][ (pc = "copy" /\ size_of(header) = 0) =>
            /\ r'.ok /\ r'.n = 0
            /\ pc' = "read_header" /\ result' = "running"
            /\ sent' = sent /\ Kinds(sent) = <<"prefix", "header">>
            /\ clock' = clock /\ iter' = iter ]_vars

C19_Witness ==
    /\ pc = "read_header" /\ Running /\ iter = 2
    /\ size_of(SrcHeader) = 0 /\ r.ok /\ r.n = 0
    /\ Kinds(sent) = <<"prefix", "header">>

====
